---- MODULE Spec2Model ----
(***************************************************************************)
(* Travel-Guide: the chat API (send_message, stream_events,               *)
(* delete_session), the session registry, the per-session EventEmitter,    *)
(* the FlowRunner that executes the travel flow on a worker thread, and    *)
(* the travel flow graph itself (flow.py, nodes.py).                       *)
(*                                                                         *)
(* Threads: the asyncio loop runs the request handlers and the             *)
(* event_generator of every open stream; each background task runs         *)
(* run_flow_sync on a thread of the pool.  A step of the model is one      *)
(* access sequence that no other thread can observe half-way.  Every node  *)
(* of the flow reads the store in prep and writes it in post, so a node    *)
(* is one step; emit is two steps (the test of _closed, then the put).     *)
(***************************************************************************)
EXTENDS Integers, Sequences, FiniteSets, TLC

\* ------------------------------------------------------------------ bounds
\* Spec: the sessions, the requests and the prompts the user answers
MaxSessions == 1
MaxIds == 3
RegistryMessages == 3
MaxPlaces == 2
MaxFaults == 1
\* ScenarioSpec: the runs of the scenario graph
ScenarioRuns == 3
MaxMessages == 2
MaxStreams == 2
MaxAnswers == 0
MaxFeedback == 1
\* FlowSpec: one request, and a user who answers this many prompts
FlowAnswers == 5
FlowFeedback == 5

\* ------------------------------------------------------- program constants
max_clarification_rounds == 5
max_workers == 4
MaxRevisions == 5

VARIABLES
  registry,   \* SessionManager._sessions: key -> the Session object stored under it
  created,    \* the Session objects that exist (deleted ones stay referenced by runs)
  status,     \* Session.status
  messages,   \* Session.messages: role and content (the number of the request)
  emitter,    \* Session.emitter: _closed, _sync_queue, _queue (allocated or not)
  store,      \* Session.shared: which dict the session names (None before creation)
  shared,     \* the dicts init_shared_store has made, by identity
  runs,       \* the background tasks, in the order send_message added them
  streams,    \* the open event_generator()s, in the order stream_events made them
  log         \* history: every event ever put on each emitter's queue, in put order

vars == <<registry, created, status, messages, emitter, store, shared, runs, streams, log>>

SessionIds == 1..MaxIds

\* EventType
THINKING == "thinking"
QUESTION == "question"
SEARCHING == "searching"
PROGRESS == "progress"
PLAN == "plan"
ERROR == "error"
COMPLETE == "complete"
EventType == {THINKING, QUESTION, SEARCHING, PROGRESS, PLAN, ERROR, COMPLETE}

Statuses == {"idle", "processing", "waiting_input", "complete", "error"}

\* The keys of trip_info the nodes read by subscript.
TripKeys == {"destination", "travel_style", "duration_days", "budget", "travelers", "interests"}

\* ------------------------------------------------------------ construction

\* EventEmitter.__init__
NewEmitter == [closed |-> FALSE, queue |-> <<>>, asyncq |-> FALSE]

\* Session.init_shared_store, plus the keys FlowRunner and the nodes add later
\* ("none" or <<>> = key absent; the empty dict and the empty list are both <<>>)
NewShared ==
  [ trip_info |-> [k \in TripKeys |-> FALSE],
    clarification_round |-> 0,
    max_clarification_rounds |-> max_clarification_rounds,
    destination_info |-> <<>>,
    accommodations |-> <<>>,
    transportation |-> <<>>,
    restaurants |-> <<>>,
    activities |-> <<>>,
    places_to_review |-> <<>>,
    place_reviews |-> <<>>,
    daily_plans |-> FALSE,
    needs_clarification |-> FALSE,
    user_request |-> FALSE,
    pending_input |-> FALSE,
    final_travel_guide |-> FALSE,
    plan_revision_count |-> 0,
    plan_emitted |-> FALSE,
    api_mode |-> FALSE,
    flow_status |-> "none" ]

Init ==
  /\ registry = <<>>
  /\ created = {}
  /\ status = [s \in SessionIds |-> "idle"]
  /\ messages = [s \in SessionIds |-> <<>>]
  /\ emitter = [s \in SessionIds |-> NewEmitter]
  /\ store = [s \in SessionIds |-> 0]
  /\ shared = [d \in SessionIds |-> NewShared]
  /\ runs = <<>>
  /\ streams = <<>>
  /\ log = [s \in SessionIds |-> <<>>]

\* ---------------------------------------------------------------- registry

None == 0

\* uuid.uuid4(): an id no session has had.  Ids are interchangeable, so the
\* smallest unused one stands for every fresh value.
uuid4 == CHOOSE u \in SessionIds \ created : \A v \in SessionIds \ created : u <= v

\* SessionManager.get_session: the Session stored under the key, or None
get_session(session_id) ==
  IF session_id \in DOMAIN registry THEN registry[session_id] ELSE None

\* A manager that makes a new session whenever it still can
get_or_create_session_new(session_id) ==
  IF SessionIds \ created # {} THEN uuid4 ELSE registry[session_id]

\* SessionManager.get_or_create_session: the session the call returns
\* (an existing one, or the one create_session is about to make)
get_or_create_session(session_id) ==
  IF session_id # None /\ session_id \in DOMAIN registry
  THEN registry[session_id]
  ELSE uuid4

\* The dict a {...} display makes: one no session names.  Dicts are
\* interchangeable, so the smallest unused id stands for every fresh object.
NewDict ==
  LET used == {store[x] : x \in SessionIds} IN
  CHOOSE d \in SessionIds \ used : \A e \in SessionIds \ used : d <= e

\* A store kept in one dict for the whole class
init_shared_store_classwide(s) ==
  /\ store' = [store EXCEPT ![s] = 1]
  /\ shared' = [shared EXCEPT ![1] = NewShared]

\* Session.init_shared_store: self.shared = {...}
init_shared_store(s) ==
  /\ store' = [store EXCEPT ![s] = NewDict]
  /\ shared' = [shared EXCEPT ![NewDict] = NewShared]

\* A manager that registers every session under the first key
create_session_one_key(s) ==
  /\ s \notin created
  /\ created' = created \cup {s}
  /\ registry' = (1 :> s) @@ registry
  /\ emitter' = [emitter EXCEPT ![s] = NewEmitter]
  /\ init_shared_store(s)

\* SessionManager.create_session: Session(id=uuid4()), init_shared_store(), register
create_session(s) ==
  /\ s \notin created
  /\ created' = created \cup {s}
  /\ registry' = registry @@ (s :> s)
  /\ emitter' = [emitter EXCEPT ![s] = NewEmitter]
  /\ init_shared_store(s)

\* A history that keeps the latest message only
add_message_latest(s, role, content) ==
  messages' = [messages EXCEPT ![s] = <<[role |-> role, content |-> content]>>]

\* Session.add_message: one entry at the end (content stands for the text and
\* the timestamp of the entry)
add_message(s, role, content) ==
  messages' = [messages EXCEPT ![s] = Append(@, [role |-> role, content |-> content])]

\* A background task as send_message queues it: run_travel_flow_async(session, message).
\* is_resuming is the local of send_message: the status the message found.
NewRun(s, nonempty) ==
  [sess |-> s, msg |-> nonempty, pc |-> "queued", mode |-> "run",
   node |-> "none", shared |-> 0, cur_retry |-> 0,
   is_resuming |-> status[s] = "waiting_input"]

\* POST /chat.  session_id is None or any string the client sends; nonempty
\* says whether request.message is a non-empty string.
send_message(session_id, nonempty) ==
  /\ \/ session_id # None /\ session_id \in DOMAIN registry
     \/ SessionIds \ created # {}
  /\ LET s == get_or_create_session(session_id) IN
       /\ IF s \in created
          THEN UNCHANGED <<created, registry, emitter, store, shared>>
          ELSE create_session(s)
       /\ add_message(s, "user", Len(runs) + 1)
       /\ status' = [status EXCEPT ![s] = "processing"]
       /\ runs' = Append(runs, NewRun(s, nonempty))
  /\ UNCHANGED <<streams, log>>

\* GET /chat/{session_id}: SessionManager.get_session, then to_dict or 404
get_session_info(session_id) == UNCHANGED vars

\* What SessionManager.delete_session returns
delete_session_result(session_id) == session_id \in DOMAIN registry

\* A delete that empties the registry
delete_session_clear(session_id) ==
  /\ IF session_id \in DOMAIN registry
     THEN registry' = <<>>
     ELSE UNCHANGED registry
  /\ UNCHANGED <<created, status, messages, emitter, store, shared, runs, streams, log>>

\* SessionManager.list_sessions: the sessions it lists
list_sessions == {registry[k] : k \in DOMAIN registry}

\* A delete that also cancels the runs of the session
delete_session_cancel(session_id) ==
  /\ IF session_id \in DOMAIN registry
     THEN /\ registry' = [k \in DOMAIN registry \ {session_id} |-> registry[k]]
          /\ runs' = [r \in DOMAIN runs |->
                        IF runs[r].sess = registry[session_id]
                        THEN [runs[r] EXCEPT !.pc = "raised", !.node = "none"]
                        ELSE runs[r]]
     ELSE UNCHANGED <<registry, runs>>
  /\ UNCHANGED <<created, status, messages, emitter, store, shared, streams, log>>

\* DELETE /chat/{session_id}: SessionManager.delete_session, 404 when it returns False
delete_session(session_id) ==
  /\ IF session_id \in DOMAIN registry
     THEN registry' = [k \in DOMAIN registry \ {session_id} |-> registry[k]]
     ELSE UNCHANGED registry
  /\ UNCHANGED <<created, status, messages, emitter, store, shared, runs, streams, log>>

\* ------------------------------------------------------------ EventEmitter

\* An emit that does not test _closed
EmitDrops_never(closed) == FALSE

\* EventEmitter.emit, first statement: a closed emitter drops the event
EmitDrops(closed) == closed

\* A StreamEvent on the queue.  id numbers the events put on one emitter
\* (it stands for content and timestamp), run is the run that emitted it.
StreamEvent(s, kind, r) == [type |-> kind, id |-> Len(log[s]) + 1, run |-> r]

\* EventEmitter.emit up to the test of _closed, called by run r at pc from:
\* returns at once (to pc skip) or goes on to the put
emit_check(r, from, put, skip) ==
  /\ runs[r].pc = from
  /\ runs' = [runs EXCEPT ![r].pc =
                IF EmitDrops(emitter[runs[r].sess].closed) THEN skip ELSE put]
  /\ UNCHANGED <<registry, created, status, messages, emitter, store, shared, streams, log>>

\* A queue that puts at the front
QueuePut_lifo(q, event) == <<event>> \o q

\* The queue after _sync_queue.put(event)
QueuePut(q, event) == Append(q, event)

\* EventEmitter.emit, the put
emit_put(r, from, kind, to) ==
  /\ runs[r].pc = from
  /\ LET s == runs[r].sess
         e == StreamEvent(s, kind, r) IN
       /\ emitter' = [emitter EXCEPT ![s].queue = QueuePut(@, e)]
       /\ log' = [log EXCEPT ![s] = Append(@, e)]
  /\ runs' = [runs EXCEPT ![r].pc = to]
  /\ UNCHANGED <<registry, created, status, messages, store, shared, streams>>

\* ------------------------------------------------------------------- flow

Nodes == {"GetUserRequest", "AnalyzeRequest", "DecideNeedInfo", "AskClarification",
          "GetUserClarification", "ResearchDestination", "GatherTravelDetails",
          "IdentifyPlaces", "GetPlaceReviews", "PlanDailyItinerary", "CalculateBudget",
          "CombineFinalPlan", "EvaluatePlan", "ReplanFromFeedback"}

\* A wiring in which DecideNeedInfo has two targets under "proceed"
Edges_forked ==
  { <<"GetUserRequest", "default", "AnalyzeRequest">>,
    <<"AnalyzeRequest", "default", "DecideNeedInfo">>,
    <<"DecideNeedInfo", "clarify", "AskClarification">>,
    <<"AskClarification", "default", "GetUserClarification">>,
    <<"GetUserClarification", "analyze", "AnalyzeRequest">>,
    <<"DecideNeedInfo", "proceed", "ResearchDestination">>,
    <<"DecideNeedInfo", "proceed", "GatherTravelDetails">>,
    <<"ResearchDestination", "default", "GatherTravelDetails">>,
    <<"GatherTravelDetails", "default", "IdentifyPlaces">>,
    <<"IdentifyPlaces", "default", "GetPlaceReviews">>,
    <<"GetPlaceReviews", "default", "PlanDailyItinerary">>,
    <<"PlanDailyItinerary", "default", "CalculateBudget">>,
    <<"CalculateBudget", "default", "CombineFinalPlan">>,
    <<"CombineFinalPlan", "default", "EvaluatePlan">>,
    <<"EvaluatePlan", "revise", "ReplanFromFeedback">>,
    <<"ReplanFromFeedback", "evaluate", "EvaluatePlan">> }

\* create_travel_guide_flow: the edges (from, action, to) and the start node
Edges ==
  { <<"GetUserRequest", "default", "AnalyzeRequest">>,
    <<"AnalyzeRequest", "default", "DecideNeedInfo">>,
    <<"DecideNeedInfo", "clarify", "AskClarification">>,
    <<"AskClarification", "default", "GetUserClarification">>,
    <<"GetUserClarification", "analyze", "AnalyzeRequest">>,
    <<"DecideNeedInfo", "proceed", "ResearchDestination">>,
    <<"ResearchDestination", "default", "GatherTravelDetails">>,
    <<"GatherTravelDetails", "default", "IdentifyPlaces">>,
    <<"IdentifyPlaces", "default", "GetPlaceReviews">>,
    <<"GetPlaceReviews", "default", "PlanDailyItinerary">>,
    <<"PlanDailyItinerary", "default", "CalculateBudget">>,
    <<"CalculateBudget", "default", "CombineFinalPlan">>,
    <<"CombineFinalPlan", "default", "EvaluatePlan">>,
    <<"EvaluatePlan", "revise", "ReplanFromFeedback">>,
    <<"ReplanFromFeedback", "evaluate", "EvaluatePlan">> }

\* A flow that starts after the request has been taken
StartNode_analyze == "AnalyzeRequest"

StartNode == "GetUserRequest"

\* The labels the post of each node can return ("None": post returns nothing)
PostLabels(node) ==
  CASE node = "DecideNeedInfo" -> {"clarify", "proceed"}
    [] node = "GetUserClarification" -> {"analyze"}
    [] node = "CalculateBudget" -> {"None"}
    [] node = "EvaluatePlan" -> {"done", "revise"}
    [] node = "ReplanFromFeedback" -> {"evaluate"}
    [] OTHER -> {"default"}

\* A lookup that takes the absent label as a label of its own
get_next_node_unlabelled(node, action) ==
  LET targets == {e[3] : e \in {x \in Edges : x[1] = node /\ x[2] = action}} IN
  IF targets = {} THEN "none" ELSE CHOOSE n \in targets : TRUE

\* Flow.get_next_node: the successor under the action ("default" for no action),
\* "none" when the node has no such edge and the flow ends
get_next_node(node, action) ==
  LET a == IF action = "None" THEN "default" ELSE action
      targets == {e[3] : e \in {x \in Edges : x[1] = node /\ x[2] = a}} IN
  IF targets = {} THEN "none" ELSE CHOOSE n \in targets : TRUE

\* The nodes of create_travel_guide_flow are built with no retry count:
\* execute is attempted once
max_retries(node) == 0

AtNode(r, node) == r \in DOMAIN runs /\ runs[r].pc = "flow" /\ runs[r].node = node

\* Flow._orch: post returned action, go to the successor or leave flow.run
Advance(r, action) ==
  LET nxt == get_next_node(runs[r].node, action) IN
  runs' = [runs EXCEPT ![r].node = nxt,
                       ![r].pc = IF nxt = "none" THEN "after" ELSE "flow"]

\* An exception leaves the node and flow.run, into the except clause of FlowRunner
Abort(r) == runs' = [runs EXCEPT ![r].node = "none", ![r].pc = "error_chk"]

NodeFrame == UNCHANGED <<registry, created, status, messages, emitter, store, streams, log>>

\* GetUserRequest: exec reads a line with input() (EOFError when stdin is closed),
\* post stores it as user_request and appends it to conversation_history
GetUserRequest(r) ==
  /\ AtNode(r, "GetUserRequest")
  /\ \E ok \in BOOLEAN :
       IF ok
       THEN /\ shared' = [shared EXCEPT ![runs[r].shared].user_request = TRUE]
            /\ Advance(r, "default")
       ELSE /\ UNCHANGED shared
            /\ Abort(r)
  /\ NodeFrame

\* What the completion may extract: the set of keys it gives a non-empty value
Extractions == {{}, {"destination"}, TripKeys}

\* A post that replaces trip_info by what the analysis extracted
MergeTripInfo_replace(trip_info, extracted) == [k \in TripKeys |-> k \in extracted]

\* AnalyzeRequest.post: a key is written only with a value that is not None, [] or ""
MergeTripInfo(trip_info, extracted) == [k \in TripKeys |-> trip_info[k] \/ k \in extracted]

\* AnalyzeRequest: call_llm raises (llm = FALSE) or the answer does not parse to
\* a mapping (parses = FALSE); otherwise post merges extracted_info into
\* trip_info and stores needs_clarification
AnalyzeRequest_on(r, llm, parses, extracted, needs) ==
  /\ AtNode(r, "AnalyzeRequest")
  /\ IF ~llm \/ ~parses
     THEN Abort(r) /\ UNCHANGED shared
     ELSE /\ shared' = [shared EXCEPT
                          ![runs[r].shared].trip_info = MergeTripInfo(@, extracted),
                          ![runs[r].shared].needs_clarification = needs]
          /\ Advance(r, "default")
  /\ NodeFrame

AnalyzeRequest(r) ==
  \E llm \in BOOLEAN, parses \in BOOLEAN, extracted \in Extractions, needs \in BOOLEAN :
    AnalyzeRequest_on(r, llm, parses, extracted, needs)

\* A decision that tests the rounds before the destination
DecideNeedInfo_exec_rounds_first(has_destination, round_num, max_rounds, needs_clarification) ==
  IF round_num >= max_rounds THEN "proceed"
  ELSE IF ~has_destination \/ needs_clarification THEN "clarify"
  ELSE "proceed"

\* DecideNeedInfo.exec
DecideNeedInfo_exec(has_destination, round_num, max_rounds, needs_clarification) ==
  IF ~has_destination THEN "clarify"
  ELSE IF round_num >= max_rounds THEN "proceed"
  ELSE IF needs_clarification THEN "clarify"
  ELSE "proceed"

\* DecideNeedInfo: prep reads the store, post returns the label exec chose
DecideNeedInfo(r) ==
  /\ AtNode(r, "DecideNeedInfo")
  /\ LET sh == shared[runs[r].shared] IN
       Advance(r, DecideNeedInfo_exec(sh.trip_info["destination"], sh.clarification_round,
                                      sh.max_clarification_rounds, sh.needs_clarification))
  /\ UNCHANGED shared
  /\ NodeFrame

\* AskClarification.post: clarification_round + 1
AskClarification(r) ==
  /\ AtNode(r, "AskClarification")
  /\ shared' = [shared EXCEPT ![runs[r].shared].clarification_round = @ + 1]
  /\ Advance(r, "default")
  /\ NodeFrame

\* GetUserClarification: exec reads the answer with input(), post appends to the history
GetUserClarification(r) ==
  /\ AtNode(r, "GetUserClarification")
  /\ \E ok \in BOOLEAN : IF ok THEN Advance(r, "analyze") ELSE Abort(r)
  /\ UNCHANGED shared
  /\ NodeFrame

\* What the search backend does with one request
SearchOutcomes == {"hits", "HTTPError", "Exception"}

\* An exception on its way out of a call, where a list was to be returned
Raised == <<"raise">>

\* A search that lets the failure of the backend out
search_web_raises(outcome) == IF outcome = "hits" THEN <<"result">> ELSE Raised

\* utils.search_web: the organic results, [] after either except clause
search_web(outcome) == IF outcome = "hits" THEN <<"result">> ELSE <<>>

\* BatchNode._exec: exec once per item, in the order of the items; exec[i] is
\* what the call for the i-th item returns
BatchNode_exec(items, exec) == [i \in 1..Len(items) |-> exec[i]]

\* A query as its words after the destination (which the model leaves out)
Has(query, word) == \E i \in DOMAIN query : query[i] = word

\* ResearchDestination.prep: three queries, then one for each of the first two
\* interests; n is how many interests trip_info holds, at most 2 being used
ResearchDestination_prep(n) ==
  << <<"travel", "guide">>, <<"top", "attractions">>, <<"best", "time", "to", "visit">> >>
    \o [i \in 1..n |-> IF i = 1 THEN <<"first interest">> ELSE <<"second interest">>]

\* ResearchDestination.exec
ResearchDestination_exec(query, outcome) ==
  [query |-> query, results |-> search_web(outcome)]

\* A post that keeps only the searches that found something
ResearchDestination_post_found(sh, exec_res_list) ==
  [sh EXCEPT !.destination_info =
     SelectSeq(exec_res_list, LAMBDA item : item.results # <<>>)]

\* ResearchDestination.post
ResearchDestination_post(sh, exec_res_list) ==
  [sh EXCEPT !.destination_info = exec_res_list]

\* Whether a batch result holds an exception instead of a list
Raises(exec_res_list) ==
  \E i \in DOMAIN exec_res_list : exec_res_list[i].results = Raised

\* ResearchDestination with n interests and the backend answering outcomes[i]
\* to the i-th search
ResearchDestination_on(r, n, outcomes) ==
  /\ AtNode(r, "ResearchDestination")
  /\ IF ~shared[runs[r].shared].trip_info["destination"]
     THEN Abort(r) /\ UNCHANGED shared
     ELSE LET queries == ResearchDestination_prep(n)
              exec_res_list ==
                BatchNode_exec(queries,
                  [i \in DOMAIN queries |->
                     ResearchDestination_exec(queries[i], outcomes[i])]) IN
          IF Raises(exec_res_list)
          THEN Abort(r) /\ UNCHANGED shared
          ELSE /\ shared' = [shared EXCEPT
                               ![runs[r].shared] = ResearchDestination_post(@, exec_res_list)]
               /\ Advance(r, "default")
  /\ NodeFrame

\* What the backend does with the n searches of one batch: at most
\* world.faults of them fail, or the backend is down for all of them; the
\* searches that fail in one batch fail in the same way
SearchRuns(n, world) ==
  LET down == {F \in SUBSET (1..n) : Cardinality(F) <= world.faults \/ F = 1..n} IN
  {[i \in 1..n |-> IF i \in F /\ kind \in world.searches THEN kind ELSE "hits"] :
     F \in down, kind \in SearchOutcomes \ {"hits"}}

\* The numbers of interests a store with interests may hold, as far as prep can tell
InterestCounts(r, world) ==
  IF shared[runs[r].shared].trip_info["interests"] THEN world.interests ELSE {0}

ResearchDestination(r, world) ==
  /\ AtNode(r, "ResearchDestination")
  /\ \E n \in InterestCounts(r, world) :
       \E outcomes \in SearchRuns(3 + n, world) :
         ResearchDestination_on(r, n, outcomes)

\* GatherTravelDetails.prep: the seven categories
GatherTravelDetails_prep ==
  << <<"hotel", "accommodation">>, <<"transportation", "getting", "around">>,
     <<"restaurant", "food", "recommendations">>, <<"activities", "things to do">>,
     <<"safety", "tips">>, <<"local", "customs">>, <<"weather", "forecast">> >>

\* GatherTravelDetails.exec
GatherTravelDetails_exec(query, outcome) ==
  [query |-> query, results |-> search_web(outcome)]

\* GatherTravelDetails.post, one item: filed by the words of its query
GatherTravelDetails_file(sh, item) ==
  IF Has(item.query, "hotel") \/ Has(item.query, "accommodation")
  THEN [sh EXCEPT !.accommodations = Append(@, item)]
  ELSE IF Has(item.query, "transportation")
  THEN [sh EXCEPT !.transportation = <<item>>]
  ELSE IF Has(item.query, "restaurant") \/ Has(item.query, "food")
  THEN [sh EXCEPT !.restaurants = Append(@, item)]
  ELSE IF Has(item.query, "activities") \/ Has(item.query, "things to do")
  THEN [sh EXCEPT !.activities = Append(@, item)]
  ELSE sh

\* GatherTravelDetails.post: every item in turn
RECURSIVE GatherTravelDetails_post(_, _)
GatherTravelDetails_post(sh, items) ==
  IF items = <<>> THEN sh
  ELSE GatherTravelDetails_post(GatherTravelDetails_file(sh, Head(items)), Tail(items))

GatherTravelDetails_on(r, outcomes) ==
  /\ AtNode(r, "GatherTravelDetails")
  /\ IF \E k \in {"destination", "travel_style"} : ~shared[runs[r].shared].trip_info[k]
     THEN Abort(r) /\ UNCHANGED shared
     ELSE LET exec_res_list ==
                BatchNode_exec(GatherTravelDetails_prep,
                  [i \in DOMAIN GatherTravelDetails_prep |->
                     GatherTravelDetails_exec(GatherTravelDetails_prep[i], outcomes[i])]) IN
          IF Raises(exec_res_list)
          THEN Abort(r) /\ UNCHANGED shared
          ELSE /\ shared' = [shared EXCEPT
                               ![runs[r].shared] = GatherTravelDetails_post(@, exec_res_list)]
               /\ Advance(r, "default")
  /\ NodeFrame

GatherTravelDetails(r, world) ==
  /\ AtNode(r, "GatherTravelDetails")
  /\ \E outcomes \in SearchRuns(Len(GatherTravelDetails_prep), world) :
       GatherTravelDetails_on(r, outcomes)

\* The names a completion may give, and the lists of at most MaxPlaces of them
PlaceNames == {"Louvre", "Orsay"}
PlaceLists == UNION {[1..n -> PlaceNames] : n \in 0..MaxPlaces}

\* IdentifyPlaces with the completion failing (llm = FALSE) or answering; the
\* answer parses to the list places, or does not parse to a mapping (places = Raised)
IdentifyPlaces_on(r, llm, places) ==
  /\ AtNode(r, "IdentifyPlaces")
  /\ IF ~llm \/ places = Raised
     THEN Abort(r) /\ UNCHANGED shared
     ELSE /\ shared' = [shared EXCEPT ![runs[r].shared].places_to_review = places]
          /\ Advance(r, "default")
  /\ NodeFrame

IdentifyPlaces(r, world) ==
  /\ AtNode(r, "IdentifyPlaces")
  /\ \E llm \in BOOLEAN : \E places \in world.places \cup {Raised} :
       IdentifyPlaces_on(r, llm, places)

\* What the place lookup does with one request
LookupOutcomes == {"found", "none", "raise"}

\* GetPlaceReviews.exec: the top match of the lookup or {} (here: whether there
\* is one), and the snippets of the first three search results
GetPlaceReviews_exec(place_name, lookup, outcome) ==
  [name |-> place_name,
   details |-> lookup = "found",
   review_snippets |-> IF lookup = "raise" THEN Raised ELSE search_web(outcome)]

\* GetPlaceReviews with the lookup answering lookups[i] and the search
\* outcomes[i] for the i-th place
GetPlaceReviews_on(r, lookups, outcomes) ==
  /\ AtNode(r, "GetPlaceReviews")
  /\ LET places == shared[runs[r].shared].places_to_review
         exec_res_list ==
           BatchNode_exec(places,
             [i \in DOMAIN places |->
                GetPlaceReviews_exec(places[i], lookups[i], outcomes[i])]) IN
       IF \E i \in DOMAIN exec_res_list : exec_res_list[i].review_snippets = Raised
       THEN Abort(r) /\ UNCHANGED shared
       ELSE /\ shared' = [shared EXCEPT ![runs[r].shared].place_reviews = exec_res_list]
            /\ Advance(r, "default")
  /\ NodeFrame

GetPlaceReviews(r, world) ==
  /\ AtNode(r, "GetPlaceReviews")
  /\ LET n == Len(shared[runs[r].shared].places_to_review) IN
       \E lookups \in [1..n -> world.lookups] : \E outcomes \in SearchRuns(n, world) :
         GetPlaceReviews_on(r, lookups, outcomes)

\* What yaml.safe_load does with the text of a daily plan: a mapping with
\* daily_plans, something else, a ScannerError, or another YAMLError
\* (ParserError, ComposerError, ConstructorError)
ParseOutcomes == {"plans", "other", "ScannerError", "YAMLError"}

\* The errors of safe_load that post's except clause names
Repairable == {"ScannerError"}

\* PlanDailyItinerary.prep and post up to the first parse.  days: duration_days
\* is a number range() takes; llm: call_llm returns; parse: the first safe_load.
\* A repairable error sends the repair request (pc "repair").
PlanDailyItinerary_on(r, days, llm, parse) ==
  /\ AtNode(r, "PlanDailyItinerary")
  /\ IF \/ \E k \in TripKeys : ~shared[runs[r].shared].trip_info[k]
        \/ ~days
        \/ ~llm
        \/ parse \notin Repairable \cup {"plans"}
     THEN Abort(r) /\ UNCHANGED shared
     ELSE IF parse \in Repairable
     THEN /\ runs' = [runs EXCEPT ![r].pc = "repair"]
          /\ UNCHANGED shared
     ELSE /\ shared' = [shared EXCEPT ![runs[r].shared].daily_plans = TRUE]
          /\ Advance(r, "default")
  /\ NodeFrame

PlanDailyItinerary(r) ==
  \E days \in BOOLEAN, llm \in BOOLEAN, parse \in ParseOutcomes :
    PlanDailyItinerary_on(r, days, llm, parse)

\* PlanDailyItinerary.post, the except clause: call_llm(error_prompt) and the
\* second safe_load, outside any try
PlanDailyItinerary_repair_on(r, llm, parse) ==
  /\ r \in DOMAIN runs
  /\ runs[r].pc = "repair"
  /\ IF llm /\ parse = "plans"
     THEN /\ shared' = [shared EXCEPT ![runs[r].shared].daily_plans = TRUE]
          /\ Advance(r, "default")
     ELSE Abort(r) /\ UNCHANGED shared
  /\ NodeFrame

PlanDailyItinerary_repair(r) ==
  \E llm \in BOOLEAN, parse \in ParseOutcomes : PlanDailyItinerary_repair_on(r, llm, parse)

\* CalculateBudget: prep subscripts trip_info, exec is one completion, post
\* returns nothing: the action is None
CalculateBudget_on(r, llm) ==
  /\ AtNode(r, "CalculateBudget")
  /\ IF llm /\ \A k \in {"budget", "duration_days", "travelers"} :
                  shared[runs[r].shared].trip_info[k]
     THEN Advance(r, "None")
     ELSE Abort(r)
  /\ UNCHANGED shared
  /\ NodeFrame

CalculateBudget(r) == \E llm \in BOOLEAN : CalculateBudget_on(r, llm)

\* A post that stores the guide and leaves the count alone
StoreGuide_uncounted(sh, nonempty) ==
  [sh EXCEPT !.final_travel_guide = nonempty]

\* CombineFinalPlan.post / ReplanFromFeedback.post: store the guide (the
\* completion may be the empty string) and count the revision
StoreGuide(sh, nonempty) ==
  [sh EXCEPT !.final_travel_guide = nonempty, !.plan_revision_count = @ + 1]

CombineFinalPlan_on(r, llm, nonempty) ==
  /\ AtNode(r, "CombineFinalPlan")
  /\ IF llm
     THEN /\ shared' = [shared EXCEPT ![runs[r].shared] = StoreGuide(@, nonempty)]
          /\ Advance(r, "default")
     ELSE Abort(r) /\ UNCHANGED shared
  /\ NodeFrame

CombineFinalPlan(r) ==
  \E llm \in BOOLEAN, nonempty \in BOOLEAN : CombineFinalPlan_on(r, llm, nonempty)

\* EvaluatePlan: at MaxRevisions the user is not asked; otherwise input() gives
\* an acceptance ("done"), feedback ("revise"), or raises
EvaluatePlan(r) ==
  /\ AtNode(r, "EvaluatePlan")
  /\ IF shared[runs[r].shared].plan_revision_count >= MaxRevisions
     THEN Advance(r, "done")
     ELSE \E answer \in {"done", "revise", "raise"} :
            IF answer = "raise" THEN Abort(r) ELSE Advance(r, answer)
  /\ UNCHANGED shared
  /\ NodeFrame

ReplanFromFeedback_on(r, llm, nonempty) ==
  /\ AtNode(r, "ReplanFromFeedback")
  /\ IF llm
     THEN /\ shared' = [shared EXCEPT ![runs[r].shared] = StoreGuide(@, nonempty)]
          /\ Advance(r, "evaluate")
     ELSE Abort(r) /\ UNCHANGED shared
  /\ NodeFrame

ReplanFromFeedback(r) ==
  \E llm \in BOOLEAN, nonempty \in BOOLEAN : ReplanFromFeedback_on(r, llm, nonempty)

\* The pause of the design: a node that needs the user's answer records in
\* the store that input is required and returns a label with no edge
Pause(r) ==
  /\ AtNode(r, "GetUserClarification")
  /\ shared' = [shared EXCEPT ![runs[r].shared].flow_status = "waiting_input"]
  /\ runs' = [runs EXCEPT ![r].node = "none", ![r].pc = "after"]
  /\ NodeFrame

\* ------------------------------------------------- the engine's retry rule

\* The scenario graph: A -default-> B, B -retry-> A, B -done-> C, B with at
\* most two retries
ScenarioNodes == {"A", "B", "C"}

ScenarioEdges ==
  { <<"A", "default", "B">>, <<"B", "retry", "A">>, <<"B", "done", "C">> }

ScenarioRetries(node) == IF node = "B" THEN 2 ELSE max_retries(node)

\* The labels the postprocess of a scenario node may return
ScenarioLabels(node) == IF node = "B" THEN {"retry", "done"} ELSE {"default"}

\* A node that gives up after the first failed attempt
Node_exec_once(cur_retry, maxRetries, ok) == IF ok THEN "post" ELSE "raise"

\* Node lifecycle, step 2, one attempt of execute (the cur_retry-th, from 0):
\* on success postprocess follows, on failure another attempt while fewer than
\* maxRetries retries were made, else the failure propagates
Node_exec(cur_retry, maxRetries, ok) ==
  IF ok THEN "post"
  ELSE IF cur_retry < maxRetries THEN "retry"
  ELSE "raise"

\* Flow(start=A).run(shared) on a thread of its own
Scenario_run ==
  /\ Len(runs) < ScenarioRuns
  /\ runs' = Append(runs, [sess |-> None, msg |-> FALSE, pc |-> "flow", mode |-> "run",
                           node |-> "A", shared |-> None, cur_retry |-> 0,
                           is_resuming |-> FALSE])
  /\ UNCHANGED <<registry, created, status, messages, emitter, store, shared, streams, log>>

\* One attempt of the current node of run r: execute succeeds or not, and
\* postprocess returns label
Scenario_attempt(r, ok, label) ==
  /\ r \in DOMAIN runs
  /\ runs[r].pc = "flow"
  /\ runs[r].node \in ScenarioNodes
  /\ label \in ScenarioLabels(runs[r].node)
  /\ LET node == runs[r].node
         outcome == Node_exec(runs[r].cur_retry, ScenarioRetries(node), ok)
         targets == {e[3] : e \in {x \in ScenarioEdges : x[1] = node /\ x[2] = label}}
         nxt == IF targets = {} THEN "none" ELSE CHOOSE n \in targets : TRUE IN
       runs' = IF outcome = "post"
               THEN [runs EXCEPT ![r].node = nxt,
                                 ![r].cur_retry = 0,
                                 ![r].pc = IF nxt = "none" THEN "returned" ELSE "flow"]
               ELSE IF outcome = "retry"
               THEN [runs EXCEPT ![r].cur_retry = @ + 1]
               ELSE [runs EXCEPT ![r].node = "none", ![r].pc = "raised"]
  /\ UNCHANGED <<registry, created, status, messages, emitter, store, shared, streams, log>>

\* ------------------------------------------------------------- FlowRunner

\* The runs that occupy a thread of the pool
Executing == {r \in DOMAIN runs : runs[r].pc \notin {"queued", "returned", "raised"}}

\* A start of the run that gives the session a new emitter
run_flow_sync_reopen(r) ==
  /\ r \in DOMAIN runs
  /\ runs[r].pc = "queued"
  /\ Cardinality(Executing) < max_workers
  /\ LET s == runs[r].sess IN
       /\ emitter' = [emitter EXCEPT ![s] = NewEmitter]
       /\ shared' = [shared EXCEPT
                       ![store[s]].pending_input = @ \/ runs[r].msg,
                       ![store[s]].api_mode = TRUE,
                       ![store[s]].flow_status = "processing"]
       /\ runs' = [runs EXCEPT ![r].pc = "thinking_chk",
                               ![r].node = StartNode,
                               ![r].shared = store[s]]
  /\ UNCHANGED <<registry, created, status, messages, store, streams, log>>

\* run_flow_sync on a pool thread, up to the first emit of FlowRunner.run /
\* FlowRunner.resume: the choice between them, pending_input, flow_status.
\* The flow built afterwards starts at StartNode in both.  FlowRunner.__init__
\* binds self.shared to the dict the session names.
run_flow_sync(r) ==
  /\ r \in DOMAIN runs
  /\ runs[r].pc = "queued"
  /\ Cardinality(Executing) < max_workers
  /\ LET s == runs[r].sess
         resuming == status[s] = "waiting_input" /\ runs[r].msg IN
       /\ shared' = [shared EXCEPT
                       ![store[s]].pending_input = @ \/ runs[r].msg,
                       ![store[s]].api_mode = @ \/ ~resuming,
                       ![store[s]].flow_status = "processing"]
       /\ runs' = [runs EXCEPT ![r].pc = "thinking_chk",
                               ![r].mode = IF resuming THEN "resume" ELSE "run",
                               ![r].node = StartNode,
                               ![r].shared = store[s]]
  /\ UNCHANGED <<registry, created, status, messages, emitter, store, streams, log>>

\* emitter.thinking("Starting to plan your trip...") / ("Processing your response...")
thinking_check(r) == r \in DOMAIN runs /\ emit_check(r, "thinking_chk", "thinking_put", "flow")
thinking_put(r) == r \in DOMAIN runs /\ emit_put(r, "thinking_put", THINKING, "flow")

\* A runner that emits first and leaves the status to be written later
FlowRunner_after_unwritten(r) ==
  /\ r \in DOMAIN runs
  /\ runs[r].pc = "after"
  /\ runs' = [runs EXCEPT ![r].pc =
                IF shared[runs[r].shared].final_travel_guide
                     /\ ~shared[runs[r].shared].plan_emitted
                THEN "plan_chk" ELSE "complete_chk"]
  /\ UNCHANGED <<registry, created, status, messages, emitter, store, shared, streams, log>>

\* A runner without the pause test: every normal return completes
FlowRunner_after_unpaused(r) ==
  /\ r \in DOMAIN runs
  /\ runs[r].pc = "after"
  /\ LET s == runs[r].sess
         d == runs[r].shared IN
       /\ shared' = [shared EXCEPT ![d].flow_status = "complete"]
       /\ status' = [status EXCEPT ![s] = "complete"]
       /\ runs' = [runs EXCEPT ![r].pc =
                     IF shared[d].final_travel_guide /\ ~shared[d].plan_emitted
                     THEN "plan_chk" ELSE "complete_chk"]
  /\ UNCHANGED <<registry, created, messages, emitter, store, streams, log>>

\* After flow.run returned: the pause test, else flow_status and status become
\* complete and the final plan is emitted once
FlowRunner_after(r) ==
  /\ r \in DOMAIN runs
  /\ runs[r].pc = "after"
  /\ LET s == runs[r].sess
         d == runs[r].shared IN
       IF shared[d].flow_status = "waiting_input"
       THEN /\ status' = [status EXCEPT ![s] = "waiting_input"]
            /\ runs' = [runs EXCEPT ![r].pc = "returned"]
            /\ UNCHANGED shared
       ELSE /\ shared' = [shared EXCEPT ![d].flow_status = "complete"]
            /\ status' = [status EXCEPT ![s] = "complete"]
            /\ runs' = [runs EXCEPT ![r].pc =
                          IF shared[d].final_travel_guide /\ ~shared[d].plan_emitted
                          THEN "plan_chk" ELSE "complete_chk"]
  /\ UNCHANGED <<registry, created, messages, emitter, store, streams, log>>

\* emitter.plan(final_plan, is_final=True); shared["plan_emitted"] = True
plan_check(r) == r \in DOMAIN runs /\ emit_check(r, "plan_chk", "plan_put", "plan_mark")
plan_put(r) == r \in DOMAIN runs /\ emit_put(r, "plan_put", PLAN, "plan_mark")
plan_mark(r) ==
  /\ r \in DOMAIN runs
  /\ runs[r].pc = "plan_mark"
  /\ shared' = [shared EXCEPT ![runs[r].shared].plan_emitted = TRUE]
  /\ runs' = [runs EXCEPT ![r].pc = "complete_chk"]
  /\ UNCHANGED <<registry, created, status, messages, emitter, store, streams, log>>

\* emitter.complete("Your travel plan is ready!"): emit, then _closed = True
complete_check(r) ==
  r \in DOMAIN runs /\ emit_check(r, "complete_chk", "complete_put", "complete_close")
complete_put(r) == r \in DOMAIN runs /\ emit_put(r, "complete_put", COMPLETE, "complete_close")
complete_close(r) ==
  /\ r \in DOMAIN runs
  /\ runs[r].pc = "complete_close"
  /\ emitter' = [emitter EXCEPT ![runs[r].sess].closed = TRUE]
  /\ runs' = [runs EXCEPT ![r].pc = "returned"]
  /\ UNCHANGED <<registry, created, status, messages, store, shared, streams, log>>

\* except Exception: emitter.error(...), status = "error", (run only:
\* flow_status = "error"), raise
error_check(r) == r \in DOMAIN runs /\ emit_check(r, "error_chk", "error_put", "error_status")
error_put(r) == r \in DOMAIN runs /\ emit_put(r, "error_put", ERROR, "error_status")
error_status(r) ==
  /\ r \in DOMAIN runs
  /\ runs[r].pc = "error_status"
  /\ LET s == runs[r].sess IN
       /\ status' = [status EXCEPT ![s] = "error"]
       /\ shared' = [shared EXCEPT ![runs[r].shared].flow_status =
                       IF runs[r].mode = "run" THEN "error" ELSE @]
  /\ runs' = [runs EXCEPT ![r].pc = "raised"]
  /\ UNCHANGED <<registry, created, messages, emitter, store, streams, log>>

\* ------------------------------------------------------------ the streams

\* The streams that have ended: get_events ran to its end ("done") or
\* event_generator broke out after COMPLETE ("stopped")
Ended(c) == streams[c].pc \in {"done", "stopped"}

\* GET /chat/{session_id}/stream: 404 for an unknown id, else an event_generator
\* over session.emitter.get_events().  afterEnd is history: the request came
\* when an earlier read had ended with the emitter closed and the queue drained.
stream_events(session_id) ==
  /\ get_session(session_id) # None
  /\ LET s == get_session(session_id) IN
       streams' = Append(streams,
         [sess |-> s, pc |-> "outer", got |-> <<>>,
          afterEnd |-> /\ \E c \in DOMAIN streams : streams[c].sess = s /\ Ended(c)
                       /\ emitter[s].closed
                       /\ emitter[s].queue = <<>>])
  /\ UNCHANGED <<registry, created, status, messages, emitter, store, shared, runs, log>>

\* get_events: what the reader does with the event it took off the queue.
\* event_generator yields it and stops after COMPLETE.
Yield(c, event, stay) ==
  [streams EXCEPT ![c].got = Append(@, event),
                  ![c].pc = IF event.type = COMPLETE THEN "stopped" ELSE stay]

\* _sync_queue.get_nowait(): the event taken and the queue left
QueueHead(q) == Head(q)
QueueRest(q) == Tail(q)

\* get_events: the test of the outer loop (preceded, the first time, by init_async_queue)
get_events_outer(c) ==
  /\ c \in DOMAIN streams
  /\ streams[c].pc = "outer"
  /\ LET s == streams[c].sess IN
       /\ emitter' = [emitter EXCEPT ![s].asyncq = TRUE]
       /\ streams' = [streams EXCEPT ![c].pc =
                        IF ~emitter[s].closed \/ emitter[s].queue # <<>>
                        THEN "inner" ELSE "drain"]
  /\ UNCHANGED <<registry, created, status, messages, store, shared, runs, log>>

\* get_events: one turn of the inner loop; on an empty queue sleep(0.1), then the outer test
get_events_inner(c) ==
  /\ c \in DOMAIN streams
  /\ streams[c].pc = "inner"
  /\ LET s == streams[c].sess IN
       IF emitter[s].queue # <<>>
       THEN /\ emitter' = [emitter EXCEPT ![s].queue = QueueRest(@)]
            /\ streams' = Yield(c, QueueHead(emitter[s].queue), "inner")
       ELSE /\ streams' = [streams EXCEPT ![c].pc = "outer"]
            /\ UNCHANGED emitter
  /\ UNCHANGED <<registry, created, status, messages, store, shared, runs, log>>

\* get_events: the final drain
get_events_drain(c) ==
  /\ c \in DOMAIN streams
  /\ streams[c].pc = "drain"
  /\ LET s == streams[c].sess IN
       IF emitter[s].queue # <<>>
       THEN /\ emitter' = [emitter EXCEPT ![s].queue = QueueRest(@)]
            /\ streams' = Yield(c, QueueHead(emitter[s].queue), "drain")
       ELSE /\ streams' = [streams EXCEPT ![c].pc = "done"]
            /\ UNCHANGED emitter
  /\ UNCHANGED <<registry, created, status, messages, store, shared, runs, log>>

\* ---------------------------------------------------------- specification

\* The clients of the run specifications open at most MaxSessions sessions
MayContact(id) == id \in DOMAIN registry \/ Cardinality(created) < MaxSessions

\* The steps of the pool threads outside flow.run
Runner ==
  \/ \E r \in DOMAIN runs : run_flow_sync(r)
  \/ \E r \in DOMAIN runs : thinking_check(r)
  \/ \E r \in DOMAIN runs : thinking_put(r)
  \/ \E r \in DOMAIN runs : FlowRunner_after(r)
  \/ \E r \in DOMAIN runs : plan_check(r)
  \/ \E r \in DOMAIN runs : plan_put(r)
  \/ \E r \in DOMAIN runs : plan_mark(r)
  \/ \E r \in DOMAIN runs : complete_check(r)
  \/ \E r \in DOMAIN runs : complete_put(r)
  \/ \E r \in DOMAIN runs : complete_close(r)
  \/ \E r \in DOMAIN runs : error_check(r)
  \/ \E r \in DOMAIN runs : error_put(r)
  \/ \E r \in DOMAIN runs : error_status(r)

\* The user at the terminal of the server: answers at most `answers` rounds of
\* clarification questions and asks for at most `feedback` revisions.  A prompt
\* left unanswered blocks in input(), or raises when stdin is closed.
UserAnswers(r, answers, feedback) ==
  LET sh == shared[runs[r].shared] IN
  /\ (runs[r].node = "GetUserClarification" /\ runs'[r].pc = "flow")
        => sh.clarification_round <= answers
  /\ (runs[r].node = "EvaluatePlan" /\ runs'[r].node = "ReplanFromFeedback")
        => sh.plan_revision_count <= feedback

\* The backends as the run specifications have them: the search finds
\* something, two interests, one place named, the lookup answers or fails
Calm ==
  [searches |-> {"hits"}, faults |-> 0, interests |-> {2}, places |-> {<<"Louvre">>},
   lookups |-> {"found", "raise"}]

\* The backends in every condition, with up to MaxFaults failed searches in a
\* batch that is not failing as a whole
Wild ==
  [searches |-> SearchOutcomes, faults |-> MaxFaults, interests |-> 1..2,
   places |-> PlaceLists, lookups |-> LookupOutcomes]

\* The steps of flow.run, with a user who answers up to the given numbers of prompts
Flow(answers, feedback, world) ==
  \/ \E r \in DOMAIN runs : GetUserRequest(r)
  \/ \E r \in DOMAIN runs : AnalyzeRequest(r)
  \/ \E r \in DOMAIN runs : DecideNeedInfo(r)
  \/ \E r \in DOMAIN runs : AskClarification(r)
  \/ \E r \in DOMAIN runs : GetUserClarification(r) /\ UserAnswers(r, answers, feedback)
  \/ \E r \in DOMAIN runs : ResearchDestination(r, world)
  \/ \E r \in DOMAIN runs : GatherTravelDetails(r, world)
  \/ \E r \in DOMAIN runs : IdentifyPlaces(r, world)
  \/ \E r \in DOMAIN runs : GetPlaceReviews(r, world)
  \/ \E r \in DOMAIN runs : PlanDailyItinerary(r)
  \/ \E r \in DOMAIN runs : PlanDailyItinerary_repair(r)
  \/ \E r \in DOMAIN runs : CalculateBudget(r)
  \/ \E r \in DOMAIN runs : CombineFinalPlan(r)
  \/ \E r \in DOMAIN runs : EvaluatePlan(r) /\ UserAnswers(r, answers, feedback)
  \/ \E r \in DOMAIN runs : ReplanFromFeedback(r)

\* The steps of the event loop in the open streams
Streams ==
  \/ \E c \in DOMAIN streams : get_events_outer(c)
  \/ \E c \in DOMAIN streams : get_events_inner(c)
  \/ \E c \in DOMAIN streams : get_events_drain(c)

\* The clients: at most MaxMessages POSTs with a non-empty message, sent at any
\* time, and at most MaxStreams stream requests, one reader at a time
Request ==
  \/ \E id \in SessionIds \cup {None} :
       Len(runs) < MaxMessages /\ MayContact(id) /\ send_message(id, TRUE)
  \/ \E id \in SessionIds :
       /\ Len(streams) < MaxStreams
       /\ \A c \in DOMAIN streams : Ended(c)
       /\ stream_events(id)

Next ==
  \/ Request
  \/ Runner
  \/ Flow(MaxAnswers, MaxFeedback, Calm)
  \/ Streams

Spec == Init /\ [][Next]_vars

\* The client the design assumes: it sends the next message only when no run
\* is in flight, and reads with one stream at a time
Finished(r) == runs[r].pc \in {"returned", "raised"}

SerialNext ==
  \/ \E id \in SessionIds \cup {None} :
       /\ Len(runs) < MaxMessages
       /\ \A r \in DOMAIN runs : Finished(r)
       /\ MayContact(id)
       /\ send_message(id, TRUE)
  \/ \E id \in SessionIds :
       /\ Len(streams) < MaxStreams
       /\ \A c \in DOMAIN streams : Ended(c)
       /\ stream_events(id)
  \/ Runner
  \/ Flow(MaxAnswers, MaxFeedback, Calm)
  \/ Streams

SerialSpec == Init /\ [][SerialNext]_vars

\* One conversation: a single POST, nobody reads the stream, a patient user
FlowNext ==
  \/ \E nonempty \in BOOLEAN : runs = <<>> /\ send_message(None, nonempty)
  \/ Runner
  \/ Flow(FlowAnswers, FlowFeedback, Calm)

FlowSpec == Init /\ [][FlowNext]_vars

\* One request and one reader at a time, scheduled fairly: the event loop keeps resuming
\* an open event_generator, and a pool thread that is not blocked in a node
\* keeps running.  Nothing makes a node finish (input() may block for ever).
FairNext ==
  \/ \E id \in SessionIds \cup {None} : runs = <<>> /\ send_message(id, TRUE)
  \/ \E id \in SessionIds :
       /\ Len(streams) < MaxStreams
       /\ \A c \in DOMAIN streams : Ended(c)
       /\ stream_events(id)
  \/ Runner
  \/ Flow(MaxAnswers, MaxFeedback, Calm)
  \/ Streams

FairSpec == Init /\ [][FairNext]_vars /\ WF_vars(Streams) /\ WF_vars(Runner)

\* One conversation over backends that fail: every search may fail on its own,
\* the completion names any list of places, the place lookup may raise
BatchNext ==
  \/ runs = <<>> /\ send_message(None, TRUE)
  \/ Runner
  \/ Flow(MaxAnswers, MaxFeedback, Wild)

BatchSpec == Init /\ [][BatchNext]_vars

\* The serial client over a flow that can pause at GetUserClarification
PauseNext ==
  \/ \E id \in SessionIds \cup {None} :
       /\ Len(runs) < MaxMessages
       /\ \A r \in DOMAIN runs : Finished(r)
       /\ MayContact(id)
       /\ send_message(id, TRUE)
  \/ \E id \in SessionIds :
       /\ Len(streams) < MaxStreams
       /\ \A c \in DOMAIN streams : Ended(c)
       /\ stream_events(id)
  \/ Runner
  \/ Flow(MaxAnswers, MaxFeedback, Calm)
  \/ \E r \in DOMAIN runs : Pause(r)
  \/ Streams

PauseSpec == Init /\ [][PauseNext]_vars

\* The engine on the scenario graph: runs that start at A, with every outcome
\* of every attempt and every label of B
ScenarioNext ==
  \/ Scenario_run
  \/ \E r \in DOMAIN runs : \E ok \in BOOLEAN : \E label \in {"default", "retry", "done"} :
       Scenario_attempt(r, ok, label)

ScenarioSpec == Init /\ [][ScenarioNext]_vars

\* The registry under every order of requests that create, look up and delete
\* sessions; the queued tasks start and bind their store but go no further
RegistryNext ==
  \/ \E id \in SessionIds \cup {None} :
       Len(runs) < RegistryMessages /\ send_message(id, TRUE)
  \/ \E id \in SessionIds : delete_session(id)
  \/ \E id \in SessionIds : get_session_info(id)
  \/ \E r \in DOMAIN runs : run_flow_sync(r)

RegistrySpec == Init /\ [][RegistryNext]_vars

\* One conversation whose session may be deleted at any moment
DeleteNext ==
  \/ runs = <<>> /\ send_message(None, TRUE)
  \/ \E id \in SessionIds : delete_session(id)
  \/ Runner
  \/ Flow(FlowAnswers, FlowFeedback, Calm)

DeleteSpec == Init /\ [][DeleteNext]_vars

\* -------------------------------------------------------------- properties

\* The events of run r that were put on the queue of its session
EventsOf(r) ==
  {i \in DOMAIN log[runs[r].sess] : log[runs[r].sess][i].run = r}

\* The event types stream c has yielded
Yielded(c) == {streams[c].got[i].type : i \in DOMAIN streams[c].got}

\* C1: with one producer at a time and a single reader, what the reader has
\* yielded followed by what is still queued is exactly what was enqueued, in
\* the order of enqueuing; and a reader that has ended has yielded every event
\* once, Complete last, and left the queue empty.
C1_DeliveredInOrder ==
  Len(streams) = 1 =>
    LET s == streams[1].sess IN
    /\ streams[1].got \o emitter[s].queue = log[s]
    /\ Ended(1) => /\ emitter[s].queue = <<>>
                   /\ streams[1].got # <<>>
                   /\ streams[1].got[Len(streams[1].got)].type = COMPLETE

\* C1 happens: the reader ended having yielded the events of a failed run and
\* of the completed run after it
C1_Witness ==
  /\ Len(streams) = 1
  /\ streams[1].pc = "stopped"
  /\ Len(streams[1].got) = 5
  /\ streams[1].got[2].type = ERROR

\* The pcs at which a run is about to test _closed inside emit, and those at
\* which it is about to put
EmitCheckPcs == {"thinking_chk", "plan_chk", "complete_chk", "error_chk"}
EmitPutPcs == {"thinking_put", "plan_put", "complete_put", "error_put"}

\* C2: an emit that starts when the emitter is closed returns without putting:
\* the step leaves the emitter (queue included) as it was and the run does not
\* go on to the put.
C2_EmitAfterCloseDropped ==
  [][\A r \in DOMAIN runs :
       (/\ runs[r].pc \in EmitCheckPcs
        /\ emitter[runs[r].sess].closed
        /\ runs'[r] # runs[r])
       => /\ emitter' = emitter
          /\ log' = log
          /\ runs'[r].pc \notin EmitPutPcs]_vars

\* C2 happens: a run is inside the flow on a closed emitter and its Thinking
\* event was never enqueued
C2_Witness ==
  \E r \in DOMAIN runs :
    /\ runs[r].pc = "flow"
    /\ emitter[runs[r].sess].closed
    /\ EventsOf(r) = {}

\* C3: once error() has returned (the run has raised and the handler is
\* through), the emitter is closed.
C3_ErrorCloses ==
  \A r \in DOMAIN runs :
    runs[r].pc = "raised" => emitter[runs[r].sess].closed

\* C4: a stream that has delivered Complete or Error ends.
C4_StreamTerminates ==
  \A c \in 1..MaxStreams :
    (c \in DOMAIN streams /\ Yielded(c) \cap {COMPLETE, ERROR} # {})
      ~> (c \in DOMAIN streams /\ Ended(c))

\* C5: a stream opened after an earlier read of the session had ended, with the
\* emitter closed and the queue drained, yields nothing.
C5_NothingAfterEnd ==
  \A c \in DOMAIN streams : streams[c].afterEnd => streams[c].got = <<>>

\* C6: at most one run of a session executes at any time.
C6_OneRunPerSession ==
  \A s \in SessionIds :
    Cardinality({r \in Executing : runs[r].sess = s}) <= 1

C8_RoundsBounded ==
  \A s \in SessionIds :
    shared[s].clarification_round <= shared[s].max_clarification_rounds

\* C9: when the latest run of a session has aborted, an Error event of that run
\* was enqueued, the status is 'error', the session is still registered, and
\* there are exactly as many runs as messages the user sent.
C9_AbortVisible ==
  \A r \in DOMAIN runs :
    (runs[r].pc = "raised" /\ r = Len(runs)) =>
      LET s == runs[r].sess IN
      /\ \E i \in EventsOf(r) : log[s][i].type = ERROR
      /\ status[s] = "error"
      /\ \E i \in DOMAIN registry : registry[i] = s
      /\ Len(messages[s]) = Cardinality({q \in DOMAIN runs : runs[q].sess = s})

\* C10: the status is always one of the five values and never returns to
\* 'idle', and at the step that ends a run the status is 'waiting_input',
\* 'complete' or 'error'.
C10_StatusAtRunEnd ==
  [][/\ \A s \in SessionIds :
          /\ status'[s] \in Statuses
          /\ status'[s] = "idle" => status[s] = "idle"
     /\ \A r \in DOMAIN runs :
          (~Finished(r) /\ Finished(r)')
          => status'[runs[r].sess] \in {"waiting_input", "complete", "error"}]_vars

\* C11: every created session names one store from its creation on, the same
\* one after every step, no two sessions name the same store, and the store a
\* run has bound is the store of its session.
C11_OneStorePerSession ==
  [][/\ \A s \in created' : store'[s] # None
     /\ \A s \in created : store'[s] = store[s]
     /\ \A s \in created', t \in created' : s # t => store'[s] # store'[t]
     /\ \A r \in DOMAIN runs' :
          runs'[r].shared # None => runs'[r].shared = store'[runs'[r].sess]]_vars

\* C11 happens: runs of two sessions have bound their stores, and one of the
\* sessions has been deleted since
C11_Witness ==
  \E r \in DOMAIN runs, q \in DOMAIN runs :
    /\ runs[r].sess # runs[q].sess
    /\ runs[r].shared # None
    /\ runs[q].shared # None
    /\ runs[r].sess \notin DOMAIN registry

\* C12: a run that leaves the queue has bound the store of its session and
\* stands at GetUserRequest, and it is at GetUserRequest that it enters the
\* flow, whatever the store holds.
C12_StartsAtStartNode ==
  [][\A r \in DOMAIN runs :
       /\ (runs[r].pc = "queued" /\ runs'[r].pc # "queued")
            => /\ runs'[r].node = "GetUserRequest"
               /\ runs'[r].shared = store[runs[r].sess]
       /\ (runs[r].pc \notin {"flow", "repair"} /\ runs'[r].pc = "flow" /\ ~Finished(r))
            => runs'[r].node = "GetUserRequest"]_vars

\* C12 happens: a second run stands at the start node over a store that
\* already holds the request and a finished guide
C12_Witness ==
  \E r \in DOMAIN runs :
    /\ r > 1
    /\ AtNode(r, "GetUserRequest")
    /\ shared[runs[r].shared].user_request
    /\ shared[runs[r].shared].final_travel_guide

\* C13: a message sent with an id that is not registered creates the session
\* of that id: the session returned has that id and get_session(id) returns
\* it afterwards.
C13_CreatedForId ==
  [][\A id \in SessionIds :
       (id \notin DOMAIN registry /\ send_message(id, TRUE))
       => /\ get_or_create_session(id) = id
          /\ get_session(id)' = id]_vars

\* C14: a message sent with a registered id acts on the session registered
\* under it and creates nothing: registry, ids issued, stores and emitters stay
\* as they are, the message joins that session's history and no other, and the
\* task queued is for that session.  Looking a session up creates nothing.
C14_SameSession ==
  [][\A id \in SessionIds :
       /\ (id \in DOMAIN registry /\ send_message(id, TRUE))
            => /\ get_or_create_session(id) = get_session(id)
               /\ UNCHANGED <<registry, created, store, emitter>>
               /\ messages' = [messages EXCEPT ![get_session(id)] =
                                Append(@, [role |-> "user", content |-> Len(runs) + 1])]
               /\ runs'[Len(runs')].sess = get_session(id)
       /\ get_session_info(id) => UNCHANGED <<registry, created>>]_vars

\* C14 happens: two messages have been sent to one session while another
\* session exists
C14_Witness ==
  \E s \in DOMAIN registry, u \in DOMAIN registry :
    /\ s # u
    /\ Len(messages[s]) = 2
    /\ Len(messages[u]) = 1

\* C15: delete_session(id) on a registered id returns true, removes that key
\* and no other, and a second delete of it returns false; on an id that is not
\* registered it returns false and leaves the registry as it is.
C15_DeleteOnlyThat ==
  [][\A id \in SessionIds :
       delete_session(id) =>
         IF delete_session_result(id)
         THEN /\ get_session(id)' = None
              /\ \A k \in SessionIds \ {id} : get_session(k)' = get_session(k)
              /\ ~delete_session_result(id)'
         ELSE registry' = registry]_vars

\* C15 happens: one of three sessions has been deleted, the other two are
\* still registered
C15_Witness ==
  /\ Cardinality(created) = 3
  /\ Cardinality(DOMAIN registry) = 2

\* C16: every key of the registry maps to the session whose id is that key,
\* and no two keys map to one session.
C16_KeysAreIds ==
  /\ \A k \in DOMAIN registry : registry[k] = k
  /\ \A k \in DOMAIN registry, j \in DOMAIN registry :
       registry[k] = registry[j] => k = j

\* C16 happens: a session was deleted and another created after it, with two
\* sessions registered
C16_Witness ==
  /\ Cardinality(DOMAIN registry) = 2
  /\ \E s \in created : s \notin DOMAIN registry /\ \E k \in DOMAIN registry : k > s

\* C17: a search that fails while a batch item is executed leaves an empty
\* result list for that item and the run goes on to the next node; a completion
\* that fails, in whichever node, aborts the run and stores nothing.
C17_SearchDegradesCompletionAborts ==
  [][\A r \in DOMAIN runs :
       LET sh == shared[runs[r].shared]
           sh2 == shared'[runs[r].shared]
           goes(node) == runs'[r].pc = "flow" /\ runs'[r].node = node
           aborts == runs'[r].pc = "error_chk" /\ shared' = shared IN
       /\ (AtNode(r, "ResearchDestination") /\ sh.trip_info["destination"])
            => \A n \in 0..2 : \A o \in SearchRuns(3 + n, Wild) :
                 ResearchDestination_on(r, n, o)
                   => /\ goes("GatherTravelDetails")
                      /\ \A i \in 1..(3 + n) :
                           o[i] # "hits" => sh2.destination_info[i].results = <<>>
       /\ (AtNode(r, "GatherTravelDetails")
              /\ sh.trip_info["destination"] /\ sh.trip_info["travel_style"])
            => \A o \in SearchRuns(7, Wild) :
                 GatherTravelDetails_on(r, o)
                   => /\ goes("IdentifyPlaces")
                      /\ o[1] # "hits"
                           => sh2.accommodations[Len(sh2.accommodations)].results = <<>>
                      /\ o[2] # "hits" => sh2.transportation[1].results = <<>>
                      /\ o[3] # "hits"
                           => sh2.restaurants[Len(sh2.restaurants)].results = <<>>
                      /\ o[4] # "hits"
                           => sh2.activities[Len(sh2.activities)].results = <<>>
       /\ AtNode(r, "GetPlaceReviews")
            => LET n == Len(sh.places_to_review) IN
               \A l \in [1..n -> {"found", "none"}] : \A o \in SearchRuns(n, Wild) :
                 GetPlaceReviews_on(r, l, o)
                   => /\ goes("PlanDailyItinerary")
                      /\ \A i \in 1..n :
                           o[i] # "hits" => sh2.place_reviews[i].review_snippets = <<>>
       /\ AtNode(r, "AnalyzeRequest")
            => \A parses \in BOOLEAN, e \in Extractions, needs \in BOOLEAN :
                 AnalyzeRequest_on(r, FALSE, parses, e, needs) => aborts
       /\ AtNode(r, "IdentifyPlaces")
            => \A places \in PlaceLists :
                 IdentifyPlaces_on(r, FALSE, places) => aborts
       /\ AtNode(r, "PlanDailyItinerary")
            => \A days \in BOOLEAN, parse \in ParseOutcomes :
                 PlanDailyItinerary_on(r, days, FALSE, parse) => aborts
       /\ runs[r].pc = "repair"
            => \A parse \in ParseOutcomes :
                 PlanDailyItinerary_repair_on(r, FALSE, parse) => aborts
       /\ AtNode(r, "CalculateBudget")
            => (CalculateBudget_on(r, FALSE) => aborts)
       /\ AtNode(r, "CombineFinalPlan")
            => \A nonempty \in BOOLEAN :
                 CombineFinalPlan_on(r, FALSE, nonempty) => aborts
       /\ AtNode(r, "ReplanFromFeedback")
            => \A nonempty \in BOOLEAN :
                 ReplanFromFeedback_on(r, FALSE, nonempty) => aborts]_vars

\* C17 happens: a run stands at IdentifyPlaces over a store in which one search
\* of each of the two nodes before it failed and one found something
C17_Witness ==
  \E r \in DOMAIN runs :
    /\ AtNode(r, "IdentifyPlaces")
    /\ \E i, j \in DOMAIN shared[runs[r].shared].destination_info :
         /\ shared[runs[r].shared].destination_info[i].results = <<>>
         /\ shared[runs[r].shared].destination_info[j].results # <<>>
    /\ shared[runs[r].shared].transportation # <<>>
    /\ shared[runs[r].shared].transportation[1].results = <<>>

\* C18: when the text of the daily plans does not parse, PlanDailyItinerary
\* sends one repair request; a repaired text that parses lets the run continue
\* to CalculateBudget, one that fails again aborts the run, and no second
\* repair request follows the first.
C18_OneRepair ==
  [][\A r \in DOMAIN runs :
       /\ (AtNode(r, "PlanDailyItinerary")
              /\ \A k \in TripKeys : shared[runs[r].shared].trip_info[k])
            => \A parse \in {"ScannerError", "YAMLError"} :
                 PlanDailyItinerary_on(r, TRUE, TRUE, parse) => runs'[r].pc = "repair"
       /\ runs[r].pc = "repair"
            => /\ runs'[r].pc # "repair" \/ runs'[r] = runs[r]
               /\ PlanDailyItinerary_repair_on(r, TRUE, "plans")
                    => runs'[r].pc = "flow" /\ runs'[r].node = "CalculateBudget"
               /\ \A parse \in {"ScannerError", "YAMLError"} :
                    PlanDailyItinerary_repair_on(r, TRUE, parse)
                      => runs'[r].pc = "error_chk"]_vars

\* C19: a batch node hands post one result per prepared item, in the order of
\* the items, for every number of items including none: after
\* ResearchDestination destination_info has the length of the prepared queries
\* and its i-th entry carries the i-th query, and after GetPlaceReviews
\* place_reviews has the length of places_to_review and its i-th entry carries
\* the i-th place.
C19_BatchKeepsOrder ==
  [][\A r \in DOMAIN runs :
       LET sh == shared[runs[r].shared]
           sh2 == shared'[runs[r].shared] IN
       /\ (AtNode(r, "ResearchDestination") /\ runs'[r].pc = "flow")
            => \A n \in 0..2 : \A o \in SearchRuns(3 + n, Wild) :
                 ResearchDestination_on(r, n, o)
                   => /\ Len(sh2.destination_info) = Len(ResearchDestination_prep(n))
                      /\ \A i \in 1..Len(ResearchDestination_prep(n)) :
                           sh2.destination_info[i].query = ResearchDestination_prep(n)[i]
       /\ (AtNode(r, "GetPlaceReviews") /\ runs'[r].pc = "flow")
            => /\ Len(sh2.place_reviews) = Len(sh.places_to_review)
               /\ \A i \in 1..Len(sh.places_to_review) :
                    sh2.place_reviews[i].name = sh.places_to_review[i]]_vars

\* C19 happens: a run has passed both nodes, with five queries of which the
\* second found nothing, and with no place to review
C19_Witness ==
  \E r \in DOMAIN runs :
    /\ AtNode(r, "PlanDailyItinerary")
    /\ Len(shared[runs[r].shared].destination_info) = 5
    /\ shared[runs[r].shared].destination_info[2].results = <<>>
    /\ shared[runs[r].shared].destination_info[1].results # <<>>
    /\ shared[runs[r].shared].places_to_review = <<>>
    /\ shared[runs[r].shared].place_reviews = <<>>

\* C20: the graph has at most one target for every pair of a node and an
\* action label, every move of a run from one node to the next follows the one
\* edge of the label returned, and CalculateBudget, whose post returns no
\* label, is routed by its "default" edge.
C20_RoutingDeterministic ==
  [][/\ \A e \in Edges : \A f \in Edges :
          (e[1] = f[1] /\ e[2] = f[2]) => e[3] = f[3]
     /\ \A r \in DOMAIN runs :
          /\ (runs[r].pc = "flow" /\ runs'[r].pc = "flow" /\ runs'[r] # runs[r])
               => \E e \in Edges :
                    /\ e[1] = runs[r].node
                    /\ e[3] = runs'[r].node
                    /\ \A f \in Edges : (f[1] = e[1] /\ f[2] = e[2]) => f = e
          /\ (AtNode(r, "CalculateBudget") /\ runs'[r].pc = "flow")
               => /\ <<"CalculateBudget", "default", runs'[r].node>> \in Edges
                  /\ runs'[r].node = "CombineFinalPlan"]_vars

\* C20 happens: a run has been through the clarification loop, the edge out of
\* CalculateBudget and the revision loop, and stands at EvaluatePlan again
C20_Witness ==
  \E r \in DOMAIN runs :
    /\ AtNode(r, "EvaluatePlan")
    /\ shared[runs[r].shared].clarification_round >= 1
    /\ shared[runs[r].shared].plan_revision_count >= 2

\* C21: execute is attempted up to maxRetries + 1 times before its failure
\* propagates.  On the scenario graph: A goes to B; a failed attempt of B
\* with fewer than two retries behind it is followed by another attempt of B;
\* an attempt of B that succeeds, the third included, is followed by C under
\* "done" (by A under "retry"); C is followed by the end of the run; and an
\* attempt that fails with all retries used aborts the run.
C21_RetriesThenPropagates ==
  [][\A r \in DOMAIN runs :
       \A ok \in BOOLEAN : \A label \in {"default", "retry", "done"} :
         Scenario_attempt(r, ok, label)
           => LET node == runs[r].node
                  tries == runs[r].cur_retry
                  at(n, k) == runs'[r].pc = "flow" /\ runs'[r].node = n
                               /\ runs'[r].cur_retry = k IN
              /\ (node = "A" /\ ok) => at("B", 0)
              /\ (node = "B" /\ ~ok /\ tries < 2) => at("B", tries + 1)
              /\ (node = "B" /\ ok /\ label = "done") => at("C", 0)
              /\ (node = "B" /\ ok /\ label = "retry") => at("A", 0)
              /\ (node = "C" /\ ok) => runs'[r].pc = "returned"
              /\ (~ok /\ node = "B" /\ tries = 2) => runs'[r].pc = "raised"
              /\ (~ok /\ node # "B") => runs'[r].pc = "raised"
              /\ tries <= ScenarioRetries(node)]_vars

\* C21 happens: B has failed twice and is at its third attempt, while another
\* run has got through B to C
C21_Witness ==
  \E r \in DOMAIN runs : \E q \in DOMAIN runs :
    /\ runs[r].pc = "flow" /\ runs[r].node = "B" /\ runs[r].cur_retry = 2
    /\ runs[q].pc = "flow" /\ runs[q].node = "C"

C23_NoMissingKey ==
  [][\A r \in DOMAIN runs :
       LET goes == runs'[r].pc # "error_chk" IN
       /\ AtNode(r, "AnalyzeRequest")
            => \A e \in Extractions, needs \in BOOLEAN :
                 AnalyzeRequest_on(r, TRUE, TRUE, e, needs) => goes
       /\ AtNode(r, "ResearchDestination")
            => \A n \in 0..2 :
                 ResearchDestination_on(r, n, [i \in 1..(3 + n) |-> "hits"]) => goes
       /\ AtNode(r, "GatherTravelDetails")
            => (GatherTravelDetails_on(r, [i \in 1..7 |-> "hits"]) => goes)
       /\ AtNode(r, "IdentifyPlaces")
            => \A places \in PlaceLists : IdentifyPlaces_on(r, TRUE, places) => goes
       /\ AtNode(r, "GetPlaceReviews")
            => LET n == Len(shared[runs[r].shared].places_to_review) IN
               GetPlaceReviews_on(r, [i \in 1..n |-> "found"], [i \in 1..n |-> "hits"])
                 => goes
       /\ AtNode(r, "PlanDailyItinerary")
            => (PlanDailyItinerary_on(r, TRUE, TRUE, "plans") => goes)
       /\ AtNode(r, "CalculateBudget")
            => (CalculateBudget_on(r, TRUE) => goes)
       /\ AtNode(r, "CombineFinalPlan")
            => \A nonempty \in BOOLEAN : CombineFinalPlan_on(r, TRUE, nonempty) => goes]_vars

\* C24: a message that found its session in status 'waiting_input' is handled
\* by FlowRunner.resume, and a message that found any other status is handled
\* by FlowRunner.run.
C24_PausedMessageResumes ==
  [][\A r \in DOMAIN runs :
       (run_flow_sync(r) /\ runs[r].msg)
       => runs'[r].mode = IF runs[r].is_resuming THEN "resume" ELSE "run"]_vars

C25_RevisionLoopBounded ==
  [][\A r \in DOMAIN runs :
       LET d == runs[r].shared IN
       /\ (AtNode(r, "EvaluatePlan") /\ shared[d].plan_revision_count >= MaxRevisions
             /\ runs'[r] # runs[r])
          => runs'[r].pc = "after"
       /\ ((AtNode(r, "CombineFinalPlan") \/ AtNode(r, "ReplanFromFeedback"))
             /\ runs'[r].pc = "flow")
          => shared'[d].plan_revision_count = shared[d].plan_revision_count + 1
       /\ (AtNode(r, "ReplanFromFeedback") /\ runs'[r] # runs[r])
          => shared[d].plan_revision_count \in 1..(MaxRevisions - 1)]_vars

\* A run that EvaluatePlan ended at the fifth plan, after four revisions
C25_Witness ==
  \E r \in DOMAIN runs :
    /\ runs[r].pc = "after"
    /\ shared[runs[r].shared].plan_revision_count = MaxRevisions

\* C26: DecideNeedInfo goes on under 'clarify' when trip_info has no
\* destination, otherwise under 'proceed' when clarification_round has reached
\* max_clarification_rounds, otherwise under 'clarify' when
\* needs_clarification is true and under 'proceed' when it is false; and it
\* changes no key of the store.
C26_DecisionFunction ==
  [][\A r \in DOMAIN runs :
       (AtNode(r, "DecideNeedInfo") /\ runs'[r] # runs[r])
       => LET sh == shared[runs[r].shared]
              clarify ==
                \/ ~sh.trip_info["destination"]
                \/ /\ sh.clarification_round < sh.max_clarification_rounds
                   /\ sh.needs_clarification IN
          /\ runs'[r].pc = "flow"
          /\ runs'[r].node = IF clarify THEN "AskClarification" ELSE "ResearchDestination"
          /\ shared' = shared]_vars

\* The decision went on to the research with the analysis still asking for
\* clarification, because the rounds are used up
C26_Witness ==
  \E r \in DOMAIN runs :
    /\ AtNode(r, "ResearchDestination")
    /\ shared[runs[r].shared].needs_clarification
    /\ shared[runs[r].shared].trip_info["destination"]
    /\ shared[runs[r].shared].clarification_round = max_clarification_rounds

\* A step of run r: of the pool thread or of a node
RunStep(r) ==
  /\ Runner \/ Flow(FlowAnswers, FlowFeedback, Calm)
  /\ runs'[r] # runs[r]

\* Run r is at a node that waits for the user at the terminal
AtPrompt(r) ==
  \/ AtNode(r, "GetUserRequest")
  \/ AtNode(r, "GetUserClarification")
  \/ AtNode(r, "EvaluatePlan")

\* C28: deleting a session leaves its runs, its store, its status and its
\* emitter as they were, and get_session and list_sessions no longer return
\* it; a run of a deleted session that is not waiting for the user can take
\* its next step, and when it ends the status of the detached session is
\* 'complete' or 'error'.
C28_DeleteDoesNotCancel ==
  /\ [][/\ \A id \in DOMAIN registry :
            delete_session(id)
            => /\ get_session(id)' = None
               /\ registry[id] \notin list_sessions'
               /\ UNCHANGED <<runs, shared, status, emitter, store>>
        /\ \A r \in DOMAIN runs :
            (runs[r].sess \notin list_sessions /\ ~Finished(r) /\ Finished(r)')
            => status'[runs[r].sess] \in {"complete", "error"}]_vars
  /\ [](\A r \in DOMAIN runs :
          (runs[r].sess \notin list_sessions /\ ~Finished(r) /\ ~AtPrompt(r))
          => ENABLED RunStep(r))

\* The run of a deleted session has ended with a plan in the detached store
C28_Witness ==
  \E r \in DOMAIN runs :
    /\ runs[r].sess \notin list_sessions
    /\ runs[r].pc = "returned"
    /\ status[runs[r].sess] = "complete"
    /\ shared[runs[r].shared].final_travel_guide

\* C29: of all the labels the nodes can return, only 'done' of EvaluatePlan has
\* no successor; every step of a run inside the flow returns one of the labels
\* of its node; and a run leaves flow.run normally only from EvaluatePlan,
\* with the guide that CombineFinalPlan stored and counted.
C29_OnlyDoneEnds ==
  [][/\ \A node \in Nodes : \A label \in PostLabels(node) :
          (get_next_node(node, label) = "none") <=> (node = "EvaluatePlan" /\ label = "done")
     /\ \A r \in DOMAIN runs :
          /\ (runs[r].pc = "flow" /\ runs'[r].pc = "flow" /\ runs'[r] # runs[r])
               => \E label \in PostLabels(runs[r].node) :
                    runs'[r].node = get_next_node(runs[r].node, label)
          /\ (runs[r].pc = "flow" /\ runs'[r].pc = "after")
               => /\ runs[r].node = "EvaluatePlan"
                  /\ shared[runs[r].shared].plan_revision_count >= 1]_vars

\* A run has returned normally from the flow after one revision
C29_Witness ==
  \E r \in DOMAIN runs :
    /\ runs[r].pc = "after"
    /\ shared[runs[r].shared].plan_revision_count = 2

\* The nodes from ResearchDestination on
PipelineNodes ==
  {"ResearchDestination", "GatherTravelDetails", "IdentifyPlaces", "GetPlaceReviews",
   "PlanDailyItinerary", "CalculateBudget", "CombineFinalPlan", "EvaluatePlan",
   "ReplanFromFeedback"}

C31_OnePlanBeforeComplete ==
  \A s \in SessionIds :
    /\ Cardinality({i \in DOMAIN log[s] : log[s][i].type = PLAN}) <= 1
    /\ \A i, j \in DOMAIN log[s] :
         (log[s][i].type = PLAN /\ log[s][j].type = COMPLETE
            /\ log[s][i].run = log[s][j].run) => i < j

\* The runs of session s
RunsOf(s) == {r \in DOMAIN runs : runs[r].sess = s}

\* Session s has an event of the kind in the queue of its emitter or among
\* the events a reader of the session has yielded
Published(s, kind) ==
  \/ \E i \in DOMAIN emitter[s].queue : emitter[s].queue[i].type = kind
  \/ \E c \in DOMAIN streams :
       /\ streams[c].sess = s
       /\ \E i \in DOMAIN streams[c].got : streams[c].got[i].type = kind

\* C32: for a session with at most one run, whenever a Complete event is in
\* the queue or has been yielded to a reader, the status of the session and
\* flow_status of its store are both 'complete'.
C32_CompleteAfterStatus ==
  \A s \in SessionIds :
    (Cardinality(RunsOf(s)) <= 1 /\ Published(s, COMPLETE))
    => /\ status[s] = "complete"
       /\ shared[store[s]].flow_status = "complete"

\* The run has put its Complete event and the reader has yielded it, before
\* complete() has set _closed
C32_Witness ==
  \E r \in DOMAIN runs : \E c \in DOMAIN streams :
    /\ RunsOf(runs[r].sess) = {r}
    /\ runs[r].pc = "complete_close"
    /\ streams[c].sess = runs[r].sess
    /\ COMPLETE \in Yielded(c)

\* C33: for a session with at most one run, whenever an Error event is in the
\* queue or has been yielded to a reader, the status that a GET of the session
\* reads is 'error'.
C33_ErrorAfterStatus ==
  \A s \in SessionIds :
    (Cardinality(RunsOf(s)) <= 1 /\ Published(s, ERROR)) => status[s] = "error"

\* C34: on the emitter of a session at most one Complete event is ever
\* enqueued, however the messages and the runs of the session interleave, and
\* no event is enqueued after a Complete event.
C34_OneCompleteLast ==
  \A s \in SessionIds : \A i \in DOMAIN log[s] :
    log[s][i].type = COMPLETE => i = Len(log[s])

\* Run r is mute: the emitter of its session is closed, the run is not past
\* the test of _closed on its way to a put, and none of its events has been
\* enqueued or yielded to a reader
Muted(r) ==
  LET s == runs[r].sess IN
  /\ emitter[s].closed
  /\ runs[r].pc \notin EmitPutPcs
  /\ EventsOf(r) = {}
  /\ \A c \in DOMAIN streams : \A i \in DOMAIN streams[c].got : streams[c].got[i].run # r

\* C35: a closed emitter stays closed, and a run started by a message that
\* found the emitter of its session closed is mute from then on: no event of
\* it, its Complete and Error included, is ever enqueued or yielded.
C35_ClosedForGood ==
  [][/\ \A s \in SessionIds : emitter[s].closed => emitter'[s].closed
     /\ \A r \in DOMAIN runs' :
          (IF r \in DOMAIN runs THEN Muted(r) ELSE emitter[runs'[r].sess].closed)
          => Muted(r)']_vars

\* A run that came after the completion has ended, by returning or raising,
\* without an event of its own
C35_Witness ==
  \E r, q \in DOMAIN runs :
    /\ q < r
    /\ runs[q].sess = runs[r].sess
    /\ \E i \in EventsOf(q) : log[runs[q].sess][i].type = COMPLETE
    /\ Finished(r)
    /\ Muted(r)

\* C36: at the step that ends a call of FlowRunner.run or FlowRunner.resume,
\* by returning or by raising, the status of the session equals flow_status
\* of its store, and both are 'waiting_input', 'complete' or 'error'.
C36_StatusIsFlowStatus ==
  [][\A r \in DOMAIN runs :
       (~Finished(r) /\ Finished(r)')
       => /\ status'[runs[r].sess] = shared'[runs[r].shared].flow_status
          /\ status'[runs[r].sess] \in {"waiting_input", "complete", "error"}]_vars

====
